---- MODULE Spec2Model ----
(***************************************************************************)
(* The logger registry of werewolf_agent.common.log.logger: LoggerManager   *)
(* with setup_logger, get_logger and shutdown, the logging-module objects   *)
(* it configures (loggers and handlers) and the callers that use it.        *)
(*                                                                          *)
(* Callers are threads.  Every thread runs one call at a time; a call is a  *)
(* sequence of steps, one step per access to shared state (the registry     *)
(* dict, a Logger object, a Handler object), in program order.  The code    *)
(* holds no lock of its own, so under Spec the steps of two threads         *)
(* interleave freely.  Under SpecSeq and SpecArgs one thread makes its      *)
(* calls one at a time: SpecSeq on two names, SpecArgs on one name with     *)
(* every kind of argument.                                                  *)
(*                                                                          *)
(* pre, stale, supplied, handed and budget are history variables: the code  *)
(* does not read them.                                                      *)
(***************************************************************************)
EXTENDS Integers, Sequences, FiniteSets, TLC

VARIABLES
    _loggers,      \* self._loggers: the dict, as the sequence of its items in insertion order
    _initialized,  \* self._initialized
    logger,        \* the logging module's Logger objects, one per name (logging.getLogger)
    handlers,      \* every Handler object created so far; a handler's identity is its index
    pc,            \* each thread's position in its call
    args,          \* each thread's call: the operation and its arguments
    local,         \* each thread's local variables (config, iterator, handler snapshot)
    ret,           \* the outcome of each thread's call: a value or a raised exception
    pre,           \* the shared state when a thread's call began with no other call running
    stale,         \* whether the registry was cleared while the thread's setup was in progress
    supplied,      \* for each registry key, the log_file_path of the call that stored it
    handed,        \* the loggers that callers hold a handle to
    budget         \* the calls the callers may still make (-1: any number)

vars == <<_loggers, _initialized, logger, handlers, pc, args, local, ret, pre, stale,
          supplied, handed, budget>>

(***************************************************************************)
(* Bounds and input domains.                                               *)
(***************************************************************************)
\* Handler objects created in one run.
MaxHandlers == 4
\* Calls made in one run of the concurrent callers.
MaxCalls == 3

None == "None"

Threads == {"t1", "t2"}
Names == {"a", "b"}

\* log_file_path arguments: absent, empty, a writable place, a place whose
\* parent directory cannot be created.
GoodPath == "logs/app.log"
BadDirPath == "ro/logs/app.log"
PathArgs == {None, "", GoodPath, BadDirPath}

\* config_file arguments.
ConfigArgs == {None, "", "missing.ini", "nosection.ini", "level.ini", "rotation.ini",
               "badint.ini", "badlevel.ini"}

\* level arguments.
LevelArgs == {None, "", "debug", "warning", "CRITICAL", "NOT_A_LEVEL"}

\* Severities of emitted records.
DEBUG == 10
INFO == 20
WARNING == 30
ERROR == 40
CRITICAL == 50
Severities == {DEBUG, INFO, WARNING, ERROR, CRITICAL}

(***************************************************************************)
(* The environment: the file system the calls see.                         *)
(***************************************************************************)
\* The INI files on disk: whether there is a [logger] section, and its options.
IniFiles ==
    ("nosection.ini" :> [has_section |-> FALSE, options |-> <<>>])
    @@ ("level.ini" :> [has_section |-> TRUE,
                        options |-> [level |-> "ERROR", format |-> "%(message)s"]])
    @@ ("rotation.ini" :> [has_section |-> TRUE,
                           options |-> [rotation_when |-> "H", rotation_interval |-> "2",
                                        backup_count |-> "3"]])
    @@ ("badint.ini" :> [has_section |-> TRUE,
                         options |-> [level |-> "DEBUG", backup_count |-> "many"]])
    @@ ("badlevel.ini" :> [has_section |-> TRUE, options |-> [level |-> "TRACE"]])

\* Path(config_file).exists()
PathExists(config_file) == config_file \in DOMAIN IniFiles

\* log_dir.mkdir(parents=True, exist_ok=True) succeeds
CanMkdir(log_file_path) == log_file_path # BadDirPath

\* Python truthiness of an optional string argument: None and "" are false.
Truthy(s) == s # None /\ s # ""

(***************************************************************************)
(* Pure functions.                                                         *)
(***************************************************************************)
\* str.upper() on the strings that occur as levels.
Upper(s) ==
    CASE s = "debug" -> "DEBUG"
      [] s = "info" -> "INFO"
      [] s = "warning" -> "WARNING"
      [] s = "error" -> "ERROR"
      [] s = "critical" -> "CRITICAL"
      [] s = "not_a_level" -> "NOT_A_LEVEL"
      [] OTHER -> s

\* The keys of level_map (lines 186-190), and whether level_str.upper() is one.
LevelNames == {"DEBUG", "INFO", "WARNING", "ERROR", "CRITICAL"}
Recognized(level_str) == Upper(level_str) \in LevelNames

\* Line 192 with the default of the logging module's root logger: a string that
\* is no key of level_map gives WARNING.
_get_log_level_DefaultWarning(level_str) ==
    LET u == Upper(level_str)
    IN  CASE u = "DEBUG" -> DEBUG
          [] u = "INFO" -> INFO
          [] u = "WARNING" -> WARNING
          [] u = "ERROR" -> ERROR
          [] u = "CRITICAL" -> CRITICAL
          [] OTHER -> WARNING

\* level_map.get(level_str.upper(), logging.INFO)
_get_log_level(level_str) ==
    LET u == Upper(level_str)
    IN  CASE u = "DEBUG" -> DEBUG
          [] u = "INFO" -> INFO
          [] u = "WARNING" -> WARNING
          [] u = "ERROR" -> ERROR
          [] u = "CRITICAL" -> CRITICAL
          [] OTHER -> INFO

\* int(s) as section.getint does it: the value, or -1 for a ValueError.
IntStrings == ("0" :> 0) @@ ("1" :> 1) @@ ("2" :> 2) @@ ("3" :> 3) @@ ("7" :> 7)
ParseInt(s) == IF s \in DOMAIN IntStrings THEN IntStrings[s] ELSE -1

\* Lines 25-29 with the logging module's own default level in place of INFO.
_default_config_Warning ==
    [ level |-> "WARNING",
      format |-> "%(asctime)s [%(levelname)s] %(name)s: %(message)s",
      date_format |-> "%Y-%m-%d %H:%M:%S" ]

\* self._default_config
_default_config ==
    [ level |-> "INFO",
      format |-> "%(asctime)s [%(levelname)s] %(name)s: %(message)s",
      date_format |-> "%Y-%m-%d %H:%M:%S" ]

\* dict.get(key, default)
DictGet(d, key, default) == IF key \in DOMAIN d THEN d[key] ELSE default

\* d[key] = value
DictSet(d, key, value) == [k \in DOMAIN d \cup {key} |-> IF k = key THEN value ELSE d[k]]

\* parser.read(config_file): the sections read; a file that is not there is
\* skipped, which leaves the parser empty.
ParserRead(config_file) ==
    IF PathExists(config_file) THEN IniFiles[config_file]
    ELSE [has_section |-> FALSE, options |-> <<>>]

\* _load_config without the test of line 113: a missing file reads as an empty one.
_load_config_error_NoExistsTest(config_file) ==
    LET o == ParserRead(config_file).options
    IN  IF \/ ("rotation_interval" \in DOMAIN o /\ ParseInt(o["rotation_interval"]) < 0)
           \/ ("backup_count" \in DOMAIN o /\ ParseInt(o["backup_count"]) < 0)
        THEN "ValueError"
        ELSE None

\* Whether _load_config raises: FileNotFoundError for a missing file, ValueError
\* from getint for a non-integer rotation_interval or backup_count.
_load_config_error(config_file) ==
    IF ~PathExists(config_file) THEN "FileNotFoundError"
    ELSE LET ini == ParserRead(config_file)
             o == ini.options
         IN  IF ini.has_section
                /\ \/ ("rotation_interval" \in DOMAIN o /\ ParseInt(o["rotation_interval"]) < 0)
                   \/ ("backup_count" \in DOMAIN o /\ ParseInt(o["backup_count"]) < 0)
             THEN "ValueError"
             ELSE None

\* _load_config's result when it does not raise.
_load_config(config_file) ==
    LET ini == ParserRead(config_file)
        o == ini.options
        c0 == _default_config
    IN  IF ~ini.has_section THEN c0
        ELSE
          LET c1 == [c0 EXCEPT !["level"] = DictGet(o, "level", c0["level"]),
                               !["format"] = DictGet(o, "format", c0["format"]),
                               !["date_format"] = DictGet(o, "date_format", c0["date_format"])]
              c2 == IF "rotation_when" \in DOMAIN o
                    THEN DictSet(c1, "rotation_when", o["rotation_when"]) ELSE c1
              c3 == IF "rotation_interval" \in DOMAIN o
                    THEN DictSet(c2, "rotation_interval", ParseInt(o["rotation_interval"]))
                    ELSE c2
              c4 == IF "backup_count" \in DOMAIN o
                    THEN DictSet(c3, "backup_count", ParseInt(o["backup_count"])) ELSE c3
          IN  c4

\* Lines 59-68 with the argument applied first: the file's level wins over it.
ResolveConfig_FileWins(config_file, level) ==
    LET config == IF Truthy(level) THEN [_default_config EXCEPT !["level"] = level]
                  ELSE _default_config
        o == ParserRead(config_file).options
    IN  IF Truthy(config_file)
        THEN [_load_config(config_file) EXCEPT
                 !["level"] = IF "level" \in DOMAIN o THEN o["level"] ELSE config["level"]]
        ELSE config

\* The config that setup_logger resolves (lines 59-68), when _load_config does not raise.
ResolveConfig(config_file, level) ==
    LET config == IF Truthy(config_file) THEN _load_config(config_file) ELSE _default_config
    IN  IF Truthy(level) THEN [config EXCEPT !["level"] = level] ELSE config

(***************************************************************************)
(* Objects.                                                                *)
(***************************************************************************)
\* logging.getLogger(name): the logging module keeps one Logger object per
\* name, so a logger's identity is its name.
getLogger(name) == name

\* A Logger object nobody has configured yet (level NOTSET).
NewLogger == [level |-> 0, propagate |-> TRUE, handlers |-> <<>>]

\* logging.Formatter(fmt=config["format"], datefmt=config.get("date_format", ...))
Formatter(config) ==
    [fmt |-> config["format"],
     datefmt |-> DictGet(config, "date_format", "%Y-%m-%d %H:%M:%S")]

\* logging.StreamHandler() with setLevel and setFormatter (lines 85-87).
ConsoleHandler(config) ==
    [kind |-> "console", level |-> _get_log_level(config["level"]),
     formatter |-> Formatter(config), baseFilename |-> None,
     when |-> "", interval |-> 0, backupCount |-> 0, closed |-> FALSE]

\* TimedRotatingFileHandler(...) with setLevel and setFormatter (lines 164-172);
\* it opens the file.
FileHandler(log_file_path, config) ==
    [kind |-> "file", level |-> _get_log_level(config["level"]),
     formatter |-> Formatter(config), baseFilename |-> log_file_path,
     when |-> DictGet(config, "rotation_when", "midnight"),
     interval |-> DictGet(config, "rotation_interval", 1),
     backupCount |-> DictGet(config, "backup_count", 0), closed |-> FALSE]

\* The dict self._loggers as the sequence of its items.
Keys(d) == {d[i].key : i \in DOMAIN d}
HasKey(d, k) == k \in Keys(d)
Lookup(d, k) == d[CHOOSE i \in DOMAIN d : d[i].key = k].value
DictStore(d, k, v) ==
    IF HasKey(d, k)
    THEN [i \in DOMAIN d |-> IF d[i].key = k THEN [key |-> k, value |-> v] ELSE d[i]]
    ELSE Append(d, [key |-> k, value |-> v])

\* The elements of a sequence, and a sequence without one element.
Range(s) == {s[i] : i \in DOMAIN s}
Without(s, x) == SelectSeq(s, LAMBDA y : y # x)

\* A thread's state between calls.
NoArgs == [op |-> None, name |-> None, log_file_path |-> None, config_file |-> None,
           level |-> None]
NoLocal == [config |-> <<>>, it_used |-> 0, it_pos |-> 0, logger |-> None,
            hs |-> <<>>, handler |-> 0]
NoRet == [kind |-> "-", val |-> None, via |-> "-", levelno |-> 0, sinks |-> {},
          closed_sinks |-> {}]
NoPre == [_loggers |-> <<>>, _initialized |-> FALSE, logger |-> [n \in Names |-> NewLogger],
          handlers |-> <<>>]

\* A call's outcome: the logger returned (and whether setup made or reused it),
\* None, the exception raised, or, for an emission, the record's severity, the
\* handlers the record was handed to and those of them that were closed at that
\* moment.
Returned(l, via) == [NoRet EXCEPT !.kind = "logger", !.val = l, !.via = via]
ReturnedNone == [NoRet EXCEPT !.kind = "None"]
Raised(e) == [NoRet EXCEPT !.kind = "raise", !.val = e]
Emitted(l, levelno, sinks) ==
    [NoRet EXCEPT !.kind = "emitted", !.val = l, !.levelno = levelno, !.sinks = sinks,
                  !.closed_sinks = {h \in sinks : handlers[h].closed}]

\* A handler that no logger and no running call refers to any more is
\* unreachable: only what it holds of the outside world (an open file) is kept.
Referenced(h, lg, loc) ==
    \/ \E n \in Names : h \in Range(lg[n].handlers)
    \/ \E t \in Threads : h \in Range(loc[t].hs) \/ h = loc[t].handler
Collect(hs, lg, loc) ==
    [h \in DOMAIN hs |->
        IF Referenced(h, lg, loc) \/ (hs[h].kind = "file" /\ ~hs[h].closed)
        THEN hs[h]
        ELSE [hs[h] EXCEPT !.level = 0, !.formatter = [fmt |-> "", datefmt |-> ""],
                           !.when = "", !.interval = 0, !.backupCount = 0]]

Start ==
    /\ _loggers = <<>>
    /\ _initialized = FALSE
    /\ logger = [n \in Names |-> NewLogger]
    /\ handlers = <<>>
    /\ pc = [t \in Threads |-> "idle"]
    /\ args = [t \in Threads |-> NoArgs]
    /\ local = [t \in Threads |-> NoLocal]
    /\ ret = [t \in Threads |-> NoRet]
    /\ pre = [t \in Threads |-> NoPre]
    /\ stale = [t \in Threads |-> FALSE]
    /\ supplied = [n \in Names |-> "-"]
    /\ handed = {}

\* The state after construction (line 219), the callers free to make any number
\* of calls.
Init == Start /\ budget = -1

\* A call uses up one of the calls the callers may make.
Spend == budget # 0 /\ budget' = (IF budget > 0 THEN budget - 1 ELSE budget)

\* What a call remembers of the shared state it started in; it is recorded for
\* a call that starts while no other call is running.
Snapshot(t) ==
    IF \A u \in Threads \ {t} : pc[u] = "idle"
    THEN [_loggers |-> _loggers, _initialized |-> _initialized, logger |-> logger,
          handlers |-> handlers]
    ELSE NoPre

\* The handlers a setup in progress will still create, and whether a new setup
\* fits under MaxHandlers with them: a call starts only if it can finish.
Need(t) ==
    IF pc[t] \in {"setLevel", "propagate", "clear", "console"}
    THEN IF Truthy(args[t].log_file_path) THEN 2 ELSE 1
    ELSE IF pc[t] = "file" THEN 1 ELSE 0
RECURSIVE SumNeed(_)
SumNeed(S) == IF S = {} THEN 0 ELSE LET t == CHOOSE x \in S : TRUE
                                    IN  Need(t) + SumNeed(S \ {t})
Room(log_file_path) ==
    Len(handlers) + SumNeed(Threads) + (IF Truthy(log_file_path) THEN 2 ELSE 1) <= MaxHandlers

(***************************************************************************)
(* setup_logger (lines 31-98).                                             *)
(***************************************************************************)
\* Line 56 left out: every call builds the logger again.
AlreadySetUp_Never(name) == FALSE

\* Line 56: if name in self._loggers
AlreadySetUp(name) == HasKey(_loggers, name)

\* Lines 59-64: the exception that loading the configuration raises, or None.
ConfigError(config_file) ==
    IF Truthy(config_file) THEN _load_config_error(config_file) ELSE None

\* The call and its first steps: the membership test of line 56 and, for a new
\* name, the configuration of lines 59-68 (which reads the file system only).
Setup_Begin(t, name, log_file_path, config_file, level) ==
    /\ pc[t] = "idle"
    /\ args' = [args EXCEPT ![t] = [op |-> "setup_logger", name |-> name,
                                    log_file_path |-> log_file_path,
                                    config_file |-> config_file, level |-> level]]
    /\ pre' = [pre EXCEPT ![t] = Snapshot(t)]
    /\ stale' = [stale EXCEPT ![t] = FALSE]
    /\ IF AlreadySetUp(name)
       THEN /\ pc' = [pc EXCEPT ![t] = "reuse"]
            /\ UNCHANGED <<local, ret>>
       ELSE IF ConfigError(config_file) # None
       THEN /\ pc' = [pc EXCEPT ![t] = "done"]
            /\ ret' = [ret EXCEPT ![t] = Raised(ConfigError(config_file))]
            /\ UNCHANGED local
       ELSE /\ Room(log_file_path)
            /\ pc' = [pc EXCEPT ![t] = "setLevel"]
            /\ local' = [local EXCEPT ![t].config = ResolveConfig(config_file, level)]
            /\ UNCHANGED ret
    /\ UNCHANGED <<_loggers, _initialized, logger, handlers, supplied, handed>>
    /\ Spend

\* Line 57: return self._loggers[name] (a KeyError when the key is gone).
Setup_Reuse(t) ==
    /\ pc[t] = "reuse"
    /\ pc' = [pc EXCEPT ![t] = "done"]
    /\ ret' = [ret EXCEPT ![t] =
                 IF HasKey(_loggers, args[t].name)
                 THEN Returned(Lookup(_loggers, args[t].name), "reused")
                 ELSE Raised("KeyError")]
    /\ UNCHANGED <<_loggers, _initialized, logger, handlers, args, local, pre, stale,
                   supplied, handed>>
    /\ UNCHANGED budget

\* Line 72 left out: the logger keeps the level it had, NOTSET for a new one.
Setup_SetLevel_Skipped(t) ==
    /\ pc[t] = "setLevel"
    /\ local' = [local EXCEPT ![t].logger = getLogger(args[t].name)]
    /\ pc' = [pc EXCEPT ![t] = "propagate"]
    /\ UNCHANGED <<_loggers, _initialized, logger, handlers, args, ret, pre, stale, supplied,
                   handed, budget>>

\* Lines 71-72: logger = logging.getLogger(name); logger.setLevel(...)
Setup_SetLevel(t) ==
    /\ pc[t] = "setLevel"
    /\ LET l == getLogger(args[t].name)
       IN  /\ local' = [local EXCEPT ![t].logger = l]
           /\ logger' = [logger EXCEPT ![l].level = _get_log_level(local[t].config["level"])]
    /\ pc' = [pc EXCEPT ![t] = "propagate"]
    /\ UNCHANGED <<_loggers, _initialized, handlers, args, ret, pre, stale, supplied, handed>>
    /\ UNCHANGED budget

\* Line 73: logger.propagate = False
Setup_Propagate(t) ==
    /\ pc[t] = "propagate"
    /\ logger' = [logger EXCEPT ![local[t].logger].propagate = FALSE]
    /\ pc' = [pc EXCEPT ![t] = "clear"]
    /\ UNCHANGED <<_loggers, _initialized, handlers, args, local, ret, pre, stale,
                   supplied, handed>>
    /\ UNCHANGED budget

\* Line 76 left out: the logger keeps the handlers it had.
Setup_Clear_Skipped(t) ==
    /\ pc[t] = "clear"
    /\ pc' = [pc EXCEPT ![t] = "console"]
    /\ UNCHANGED <<_loggers, _initialized, logger, handlers, args, local, ret, pre, stale,
                   supplied, handed, budget>>

\* Line 76: logger.handlers.clear(): the handlers are dropped, not closed.
Setup_Clear(t) ==
    /\ pc[t] = "clear"
    /\ logger' = [logger EXCEPT ![local[t].logger].handlers = <<>>]
    /\ handlers' = Collect(handlers, logger', local)
    /\ pc' = [pc EXCEPT ![t] = "console"]
    /\ UNCHANGED <<_loggers, _initialized, args, local, ret, pre, stale, supplied, handed>>
    /\ UNCHANGED budget

\* Lines 79-88 with line 95 moved up: the logger is stored before its file
\* handler is made.
Setup_Console_StoresEarly(t) ==
    /\ pc[t] = "console"
    /\ handlers' = Append(handlers, ConsoleHandler(local[t].config))
    /\ logger' = [logger EXCEPT ![local[t].logger].handlers = Append(@, Len(handlers) + 1)]
    /\ _loggers' = DictStore(_loggers, args[t].name, local[t].logger)
    /\ pc' = [pc EXCEPT ![t] = IF Truthy(args[t].log_file_path) THEN "file" ELSE "register"]
    /\ UNCHANGED <<_initialized, args, local, ret, pre, stale, supplied, handed, budget>>

\* Lines 79-88: the formatter, the console handler, logger.addHandler.
Setup_Console(t) ==
    /\ pc[t] = "console"
    /\ handlers' = Append(handlers, ConsoleHandler(local[t].config))
    /\ logger' = [logger EXCEPT ![local[t].logger].handlers = Append(@, Len(handlers) + 1)]
    /\ pc' = [pc EXCEPT ![t] = IF Truthy(args[t].log_file_path) THEN "file" ELSE "register"]
    /\ UNCHANGED <<_loggers, _initialized, args, local, ret, pre, stale, supplied, handed>>
    /\ UNCHANGED budget

\* Lines 91-92 and _add_file_handler (lines 159-173): mkdir, which may raise,
\* then the rotating file handler, then logger.addHandler.
Setup_File(t) ==
    /\ pc[t] = "file"
    /\ IF CanMkdir(args[t].log_file_path)
       THEN /\ handlers' = Append(handlers, FileHandler(args[t].log_file_path, local[t].config))
            /\ logger' = [logger EXCEPT ![local[t].logger].handlers = Append(@, Len(handlers) + 1)]
            /\ pc' = [pc EXCEPT ![t] = "register"]
            /\ UNCHANGED ret
       ELSE /\ pc' = [pc EXCEPT ![t] = "done"]
            /\ ret' = [ret EXCEPT ![t] = Raised("OSError")]
            /\ UNCHANGED <<handlers, logger>>
    /\ UNCHANGED <<_loggers, _initialized, args, local, pre, stale, supplied, handed>>
    /\ UNCHANGED budget

\* Line 95 as self._loggers = {name: logger}: the other items are lost.
Setup_Register_Replaces(t) ==
    /\ pc[t] = "register"
    /\ _loggers' = <<[key |-> args[t].name, value |-> local[t].logger]>>
    /\ supplied' = [supplied EXCEPT ![args[t].name] = args[t].log_file_path]
    /\ pc' = [pc EXCEPT ![t] = "initialized"]
    /\ UNCHANGED <<_initialized, logger, handlers, args, local, ret, pre, stale, handed,
                   budget>>

\* Line 95: self._loggers[name] = logger
Setup_Register(t) ==
    /\ pc[t] = "register"
    /\ _loggers' = DictStore(_loggers, args[t].name, local[t].logger)
    /\ supplied' = [supplied EXCEPT ![args[t].name] = args[t].log_file_path]
    /\ pc' = [pc EXCEPT ![t] = "initialized"]
    /\ UNCHANGED <<_initialized, logger, handlers, args, local, ret, pre, stale, handed>>
    /\ UNCHANGED budget

\* Lines 96-98: self._initialized = True; return logger
Setup_Initialized(t) ==
    /\ pc[t] = "initialized"
    /\ _initialized' = TRUE
    /\ pc' = [pc EXCEPT ![t] = "done"]
    /\ ret' = [ret EXCEPT ![t] = Returned(local[t].logger, "created")]
    /\ UNCHANGED <<_loggers, logger, handlers, args, local, pre, stale, supplied, handed>>
    /\ UNCHANGED budget

(***************************************************************************)
(* get_logger (lines 194-204).                                             *)
(***************************************************************************)
\* Line 204 as self._loggers.setdefault(name, logging.getLogger(name)): a name
\* that is not registered is stored with the logging module's logger.
Get_Constructs(t, name) ==
    /\ pc[t] = "idle"
    /\ args' = [args EXCEPT ![t] = [NoArgs EXCEPT !.op = "get_logger", !.name = name]]
    /\ pre' = [pre EXCEPT ![t] = Snapshot(t)]
    /\ pc' = [pc EXCEPT ![t] = "done"]
    /\ _loggers' = IF HasKey(_loggers, name) THEN _loggers
                   ELSE DictStore(_loggers, name, getLogger(name))
    /\ ret' = [ret EXCEPT ![t] = Returned(Lookup(_loggers', name), "got")]
    /\ UNCHANGED <<_initialized, logger, handlers, local, stale, supplied, handed>>
    /\ Spend

\* Line 204: return self._loggers.get(name)
Get(t, name) ==
    /\ pc[t] = "idle"
    /\ args' = [args EXCEPT ![t] = [NoArgs EXCEPT !.op = "get_logger", !.name = name]]
    /\ pre' = [pre EXCEPT ![t] = Snapshot(t)]
    /\ pc' = [pc EXCEPT ![t] = "done"]
    /\ ret' = [ret EXCEPT ![t] = IF HasKey(_loggers, name)
                                 THEN Returned(Lookup(_loggers, name), "got")
                                 ELSE ReturnedNone]
    /\ UNCHANGED <<_loggers, _initialized, logger, handlers, local, stale, supplied, handed>>
    /\ Spend

(***************************************************************************)
(* shutdown (lines 206-215).                                               *)
(***************************************************************************)
\* Line 210: the iterator over self._loggers.values()
Shutdown_Begin(t) ==
    /\ pc[t] = "idle"
    /\ args' = [args EXCEPT ![t] = [NoArgs EXCEPT !.op = "shutdown"]]
    /\ pre' = [pre EXCEPT ![t] = Snapshot(t)]
    /\ local' = [local EXCEPT ![t].it_used = Len(_loggers), ![t].it_pos = 1]
    /\ pc' = [pc EXCEPT ![t] = "sd_next"]
    /\ UNCHANGED <<_loggers, _initialized, logger, handlers, ret, stale, supplied, handed>>
    /\ Spend

\* Lines 210-211 with the first logger taken by next(iter(...)) before the
\* loop: an empty dict raises StopIteration.
Shutdown_Next_EmptyRaises(t) ==
    /\ pc[t] = "sd_next"
    /\ IF Len(_loggers) # local[t].it_used
       THEN /\ pc' = [pc EXCEPT ![t] = "done"]
            /\ ret' = [ret EXCEPT ![t] = Raised("RuntimeError")]
            /\ UNCHANGED local
       ELSE IF Len(_loggers) = 0
       THEN /\ pc' = [pc EXCEPT ![t] = "done"]
            /\ ret' = [ret EXCEPT ![t] = Raised("StopIteration")]
            /\ UNCHANGED local
       ELSE IF local[t].it_pos > Len(_loggers)
       THEN /\ pc' = [pc EXCEPT ![t] = "sd_clear"]
            /\ UNCHANGED <<local, ret>>
       ELSE LET l == _loggers[local[t].it_pos].value
                hs == logger[l].handlers
            IN  /\ local' = [local EXCEPT ![t].logger = l, ![t].hs = hs,
                                          ![t].it_pos = @ + 1]
                /\ pc' = [pc EXCEPT ![t] = IF hs = <<>> THEN "sd_next" ELSE "sd_close"]
                /\ UNCHANGED ret
    /\ UNCHANGED <<_loggers, _initialized, logger, handlers, args, pre, stale, supplied,
                   handed, budget>>

\* Lines 210-211: the iterator's next value (a RuntimeError when the dict has
\* changed size since the iterator was made), then the copy logger.handlers[:]
Shutdown_Next(t) ==
    /\ pc[t] = "sd_next"
    /\ IF Len(_loggers) # local[t].it_used
       THEN /\ pc' = [pc EXCEPT ![t] = "done"]
            /\ ret' = [ret EXCEPT ![t] = Raised("RuntimeError")]
            /\ UNCHANGED local
       ELSE IF local[t].it_pos > Len(_loggers)
       THEN /\ pc' = [pc EXCEPT ![t] = "sd_clear"]
            /\ UNCHANGED <<local, ret>>
       ELSE LET l == _loggers[local[t].it_pos].value
                hs == logger[l].handlers
            IN  /\ local' = [local EXCEPT ![t].logger = l, ![t].hs = hs,
                                          ![t].it_pos = @ + 1]
                /\ pc' = [pc EXCEPT ![t] = IF hs = <<>> THEN "sd_next" ELSE "sd_close"]
                /\ UNCHANGED ret
    /\ UNCHANGED <<_loggers, _initialized, logger, handlers, args, pre, stale, supplied,
                   handed>>
    /\ UNCHANGED budget

\* What handler.close() can do: return, or, for a file handler with an open
\* stream, raise the OSError of its flush (the stream is closed either way).
CloseOutcomes(h) ==
    IF handlers[h].kind = "file" /\ ~handlers[h].closed THEN {"closed", "OSError"}
    ELSE {"closed"}

\* Line 212 left out: the handler is removed from its logger and not closed.
Shutdown_Close_Skipped(t) ==
    /\ pc[t] = "sd_close"
    /\ local' = [local EXCEPT ![t].handler = Head(local[t].hs), ![t].hs = Tail(@)]
    /\ pc' = [pc EXCEPT ![t] = "sd_remove"]
    /\ UNCHANGED <<_loggers, _initialized, logger, handlers, args, ret, pre, stale,
                   supplied, handed, budget>>

\* Line 212: handler.close(); shutdown catches nothing.
Shutdown_Close(t) ==
    /\ pc[t] = "sd_close"
    /\ LET h == Head(local[t].hs)
       IN  \E outcome \in CloseOutcomes(h) :
              /\ handlers' = [handlers EXCEPT ![h].closed = TRUE]
              /\ IF outcome = "closed"
                 THEN /\ local' = [local EXCEPT ![t].handler = h, ![t].hs = Tail(@)]
                      /\ pc' = [pc EXCEPT ![t] = "sd_remove"]
                      /\ UNCHANGED ret
                 ELSE /\ pc' = [pc EXCEPT ![t] = "done"]
                      /\ ret' = [ret EXCEPT ![t] = Raised(outcome)]
                      /\ UNCHANGED local
    /\ UNCHANGED <<_loggers, _initialized, logger, args, pre, stale, supplied, handed>>
    /\ UNCHANGED budget

\* Line 213 left out: the closed handler stays on its logger.
Shutdown_Remove_Skipped(t) ==
    /\ pc[t] = "sd_remove"
    /\ local' = [local EXCEPT ![t].handler = 0]
    /\ pc' = [pc EXCEPT ![t] = IF local[t].hs = <<>> THEN "sd_next" ELSE "sd_close"]
    /\ UNCHANGED <<_loggers, _initialized, logger, handlers, args, ret, pre, stale,
                   supplied, handed, budget>>

\* Line 213: logger.removeHandler(handler)
Shutdown_Remove(t) ==
    /\ pc[t] = "sd_remove"
    /\ logger' = [logger EXCEPT ![local[t].logger].handlers = Without(@, local[t].handler)]
    /\ local' = [local EXCEPT ![t].handler = 0]
    /\ handlers' = Collect(handlers, logger', local')
    /\ pc' = [pc EXCEPT ![t] = IF local[t].hs = <<>> THEN "sd_next" ELSE "sd_close"]
    /\ UNCHANGED <<_loggers, _initialized, args, ret, pre, stale, supplied, handed>>
    /\ UNCHANGED budget

\* The positions of a setup that has passed the test of line 56 and not yet
\* stored its logger.
Creating == {"setLevel", "propagate", "clear", "console", "file", "register"}

\* Line 214 left out: the handlers are closed and the dict keeps its items.
Shutdown_Clear_KeepsItems(t) ==
    /\ pc[t] = "sd_clear"
    /\ pc' = [pc EXCEPT ![t] = "sd_flag"]
    /\ UNCHANGED <<_loggers, _initialized, logger, handlers, args, local, ret, pre, stale,
                   supplied, handed, budget>>

\* Line 214: self._loggers.clear()
Shutdown_Clear(t) ==
    /\ pc[t] = "sd_clear"
    /\ _loggers' = <<>>
    /\ supplied' = [n \in Names |-> "-"]
    /\ stale' = [u \in Threads |-> stale[u] \/ pc[u] \in Creating]
    /\ pc' = [pc EXCEPT ![t] = "sd_flag"]
    /\ UNCHANGED <<_initialized, logger, handlers, args, local, ret, pre, handed>>
    /\ UNCHANGED budget

\* Line 215 left out: the flag stays as it was.
Shutdown_Flag_Kept(t) ==
    /\ pc[t] = "sd_flag"
    /\ pc' = [pc EXCEPT ![t] = "done"]
    /\ ret' = [ret EXCEPT ![t] = ReturnedNone]
    /\ UNCHANGED <<_loggers, _initialized, logger, handlers, args, local, pre, stale,
                   supplied, handed, budget>>

\* Line 215: self._initialized = False, and the return.
Shutdown_Flag(t) ==
    /\ pc[t] = "sd_flag"
    /\ _initialized' = FALSE
    /\ pc' = [pc EXCEPT ![t] = "done"]
    /\ ret' = [ret EXCEPT ![t] = ReturnedNone]
    /\ UNCHANGED <<_loggers, logger, handlers, args, local, pre, stale, supplied, handed>>
    /\ UNCHANGED budget

(***************************************************************************)
(* The callers: record emission on a logger they hold, and the end of a    *)
(* call.                                                                   *)
(***************************************************************************)
\* Logger.getEffectiveLevel(): the logger's level, or the root's WARNING.
EffectiveLevel(l) == IF logger[l].level # 0 THEN logger[l].level ELSE WARNING

\* The handlers a record of severity levelno reaches: Logger.isEnabledFor, then
\* Logger.callHandlers' test levelno >= hdlr.level.
Delivered(l, levelno) ==
    IF levelno >= EffectiveLevel(l)
    THEN {h \in Range(logger[l].handlers) : levelno >= handlers[h].level}
    ELSE {}

\* logger.log(levelno, message) on a logger the caller holds (as game_master.py
\* line 20 does).
Emit(t, l, levelno) ==
    /\ pc[t] = "idle"
    /\ l \in handed
    /\ args' = [args EXCEPT ![t] = [NoArgs EXCEPT !.op = "log", !.name = l]]
    /\ pre' = [pre EXCEPT ![t] = Snapshot(t)]
    /\ pc' = [pc EXCEPT ![t] = "done"]
    /\ ret' = [ret EXCEPT ![t] = Emitted(l, levelno, Delivered(l, levelno))]
    /\ UNCHANGED <<_loggers, _initialized, logger, handlers, local, stale, supplied, handed>>
    /\ Spend

\* The call is over: the caller keeps the logger it was given.
Return(t) ==
    /\ pc[t] = "done"
    /\ handed' = IF ret[t].kind = "logger" THEN handed \cup {ret[t].val} ELSE handed
    /\ pc' = [pc EXCEPT ![t] = "idle"]
    /\ args' = [args EXCEPT ![t] = NoArgs]
    /\ local' = [local EXCEPT ![t] = NoLocal]
    /\ ret' = [ret EXCEPT ![t] = NoRet]
    /\ pre' = [pre EXCEPT ![t] = NoPre]
    /\ stale' = [stale EXCEPT ![t] = FALSE]
    /\ handlers' = Collect(handlers, logger, local')
    /\ UNCHANGED <<_loggers, _initialized, logger, supplied, budget>>

(***************************************************************************)
(* Specifications.                                                         *)
(***************************************************************************)
\* One step of thread t, its calls drawing their arguments from the given sets.
Step(t, N, P, C, L, R) ==
    \/ \E name \in N, p \in P, c \in C, l \in L : Setup_Begin(t, name, p, c, l)
    \/ Setup_Reuse(t)
    \/ Setup_SetLevel(t)
    \/ Setup_Propagate(t)
    \/ Setup_Clear(t)
    \/ Setup_Console(t)
    \/ Setup_File(t)
    \/ Setup_Register(t)
    \/ Setup_Initialized(t)
    \/ \E name \in N : Get(t, name)
    \/ Shutdown_Begin(t)
    \/ Shutdown_Next(t)
    \/ Shutdown_Close(t)
    \/ Shutdown_Remove(t)
    \/ Shutdown_Clear(t)
    \/ Shutdown_Flag(t)
    \/ \E l \in N, r \in R : Emit(t, l, r)
    \/ Return(t)

\* Concurrent callers: the steps of the threads interleave.
ConcPaths == {None, GoodPath}
ConcConfigs == {None}
ConcLevels == {None, "debug"}
ConcSeverities == {INFO}
Next == \E t \in Threads : Step(t, Names, ConcPaths, ConcConfigs, ConcLevels, ConcSeverities)
InitConc == Start /\ budget = MaxCalls
Spec == InitConc /\ [][Next]_vars

\* One caller, one call at a time, on two names.
SeqPaths == {None, GoodPath, BadDirPath}
SeqConfigs == {None, "missing.ini", "level.ini"}
SeqLevels == {None, "debug"}
SeqSeverities == {DEBUG, ERROR}
SeqNext == Step("t1", Names, SeqPaths, SeqConfigs, SeqLevels, SeqSeverities)
SpecSeq == Init /\ [][SeqNext]_vars

\* One caller, one call at a time, on one name, with every argument.
ArgsNext == Step("t1", {"a"}, PathArgs, ConfigArgs, LevelArgs, Severities)
SpecArgs == Init /\ [][ArgsNext]_vars

(***************************************************************************)
(* Properties.                                                             *)
(***************************************************************************)
IsSetup(t) == args[t].op = "setup_logger"
WasRegistered(t) == HasKey(pre[t]._loggers, args[t].name)

\* The handlers attached to a logger, of one kind.
Attached(l) == Range(logger[l].handlers)
Sinks(l, kind) == {h \in Attached(l) : handlers[h].kind = kind}
OpenFiles == {h \in DOMAIN handlers : handlers[h].kind = "file" /\ ~handlers[h].closed}

\* C1 (idempotent reuse): a setup call for a name that is registered when the
\* call starts, whatever its other arguments, goes through the reuse path only,
\* returns the registered logger, which is the one handed out before, and
\* leaves the registry, every logger and every handler as they were; its
\* arguments are not evaluated, so it raises nothing.
C1_IdempotentReuse ==
    \A t \in Threads :
        (IsSetup(t) /\ WasRegistered(t)) =>
            /\ pc[t] \in {"reuse", "done"}
            /\ pc[t] = "done" =>
                  /\ ret[t] = Returned(Lookup(pre[t]._loggers, args[t].name), "reused")
                  /\ ret[t].val \in handed
            /\ _loggers = pre[t]._loggers
            /\ logger = pre[t].logger
            /\ handlers = pre[t].handlers

\* C1's case: a second setup of a registered name with a missing configuration
\* file and a level other than the entry's has returned.
C1_Witness ==
    \E t \in Threads :
        /\ pc[t] = "done" /\ IsSetup(t) /\ WasRegistered(t)
        /\ args[t].config_file = "missing.ini"
        /\ args[t].level = "debug"
        /\ args[t].log_file_path = GoodPath
        /\ logger[args[t].name].level # DEBUG
        /\ Sinks(args[t].name, "file") = {}
        /\ ret[t].kind = "logger"

\* The entry that a setup call with these arguments builds: the logger's level
\* and its handlers, in order.
BuiltAsAsked(l, a, before) ==
    LET config == ResolveConfig(a.config_file, a.level)
        hs == logger[l].handlers
    IN  /\ logger[l].level = _get_log_level(config["level"])
        /\ Len(hs) = (IF Truthy(a.log_file_path) THEN 2 ELSE 1)
        /\ handlers[hs[1]] = ConsoleHandler(config)
        /\ Truthy(a.log_file_path) => handlers[hs[2]] = FileHandler(a.log_file_path, config)
        /\ \A h \in Range(hs) : h > Len(before.handlers)

\* C4 (shutdown clears state): when shutdown has returned, no name registered
\* before it is registered any more (get finds nothing); and a setup that
\* returns a logger for a name that was handed out before and is not
\* registered when the call starts has built a new entry: level and sinks are
\* those of this call's arguments and every sink was created by this call.
C4_ShutdownClearsState ==
    \A t \in Threads :
        /\ (pc[t] = "done" /\ args[t].op = "shutdown" /\ ret[t].kind = "None") =>
              \A n \in Keys(pre[t]._loggers) : ~HasKey(_loggers, n)
        /\ (pc[t] = "done" /\ IsSetup(t) /\ ret[t].kind = "logger"
              /\ args[t].name \in handed /\ ~WasRegistered(t)) =>
              /\ ret[t].via = "created"
              /\ HasKey(_loggers, args[t].name)
              /\ Lookup(_loggers, args[t].name) = ret[t].val
              /\ BuiltAsAsked(ret[t].val, args[t], pre[t])

\* C4's case: a name set up with a file, shut down, and set up again without.
C4_Witness ==
    \E t \in Threads :
        /\ pc[t] = "done" /\ IsSetup(t) /\ ret[t].via = "created"
        /\ args[t].name \in handed /\ ~WasRegistered(t)
        /\ args[t].log_file_path = None
        /\ \E h \in DOMAIN pre[t].handlers :
              pre[t].handlers[h].kind = "file" /\ pre[t].handlers[h].closed

\* C6 (directory-creation failure): a setup of an unregistered name whose
\* configuration loads and whose log directory cannot be created ends by
\* raising the OSError of mkdir, with the registry as it was when the call
\* started: no item for the name, and every registered logger with the level
\* and the handlers it had.
C6_MkdirFailureLeavesRegistry ==
    \A t \in Threads :
        (pc[t] = "done" /\ IsSetup(t) /\ ~WasRegistered(t)
           /\ ConfigError(args[t].config_file) = None
           /\ Truthy(args[t].log_file_path) /\ ~CanMkdir(args[t].log_file_path)) =>
            /\ ret[t] = Raised("OSError")
            /\ _loggers = pre[t]._loggers
            /\ ~HasKey(_loggers, args[t].name)
            /\ \A m \in Keys(_loggers) :
                  /\ logger[m] = pre[t].logger[m]
                  /\ \A h \in Attached(m) : handlers[h] = pre[t].handlers[h]

\* C6's case: the call has failed on mkdir while another name is registered.
C6_Witness ==
    \E t \in Threads :
        /\ pc[t] = "done" /\ IsSetup(t) /\ ret[t] = Raised("OSError")
        /\ args[t].log_file_path = BadDirPath
        /\ Keys(_loggers) # {}
        /\ args[t].name \notin Keys(_loggers)

\* C7 (missing configuration resource): a setup of an unregistered name with a
\* configuration path that does not exist ends at once by raising
\* FileNotFoundError, with no item for the name and the registry, every logger
\* and every handler as they were when the call started.
C7_MissingConfigRaises ==
    \A t \in Threads :
        (IsSetup(t) /\ ~WasRegistered(t)
           /\ Truthy(args[t].config_file) /\ ~PathExists(args[t].config_file)) =>
            /\ pc[t] = "done"
            /\ ret[t] = Raised("FileNotFoundError")
            /\ ~HasKey(_loggers, args[t].name)
            /\ _loggers = pre[t]._loggers
            /\ _initialized = pre[t]._initialized
            /\ logger = pre[t].logger
            /\ handlers = pre[t].handlers

\* C7's case: the call has failed on the missing file while another name is
\* registered.
C7_Witness ==
    \E t \in Threads :
        /\ pc[t] = "done" /\ IsSetup(t) /\ ret[t] = Raised("FileNotFoundError")
        /\ args[t].config_file = "missing.ini"
        /\ Keys(_loggers) # {}
        /\ args[t].name \notin Keys(_loggers)

\* C2 (concurrent setup of one name): when the first two calls of a run are
\* setups of the same name, one by each thread, and both have ended, the
\* registry has one item, both callers were returned the same logger, that
\* logger has exactly one console handler, and at most one file is open, by a
\* handler attached to that logger.
C2_ConcurrentSetupOneEntry ==
    \A n \in Names :
        (/\ budget = MaxCalls - Cardinality(Threads)
         /\ \A t \in Threads : pc[t] = "done" /\ IsSetup(t) /\ args[t].name = n) =>
            /\ Len(_loggers) = 1
            /\ \A t \in Threads : ret[t].kind = "logger" /\ ret[t].val = getLogger(n)
            /\ Cardinality(Sinks(getLogger(n), "console")) = 1
            /\ Cardinality(OpenFiles) <= 1
            /\ OpenFiles \subseteq Attached(getLogger(n))

\* C3 (shutdown is a barrier): no record is handed to a handler that is already
\* closed, no setup that was building its logger when the registry was cleared
\* has stored it since, and the registry has not grown under a shutdown that is
\* iterating it.
C3_ShutdownBarrier ==
    \A t \in Threads :
        /\ ret[t].kind = "emitted" => ret[t].closed_sinks = {}
        /\ ~(pc[t] = "initialized" /\ stale[t])
        /\ pc[t] \in {"sd_next", "sd_close", "sd_remove"} =>
              Len(_loggers) <= local[t].it_used

\* C5 (shutdown never raises): a shutdown call that has ended has returned
\* None, the registry is empty, and every handler that was attached to a
\* registered logger when the call started is closed.
C5_ShutdownNeverRaises ==
    \A t \in Threads :
        (pc[t] = "done" /\ args[t].op = "shutdown") =>
            /\ ret[t].kind = "None"
            /\ _loggers = <<>>
            /\ \A i \in DOMAIN pre[t]._loggers :
                  \A h \in Range(pre[t].logger[pre[t]._loggers[i].value].handlers) :
                      handlers[h].closed

\* C8 (no partially initialized entry): as long as no shutdown is running and
\* no handler has been closed, every registered logger has its level set, a
\* console handler and, when its setup was given a file path, a file handler.
C8_NoPartialEntry ==
    ((\A t \in Threads : args[t].op # "shutdown")
       /\ (\A h \in DOMAIN handlers : ~handlers[h].closed)) =>
        \A i \in DOMAIN _loggers :
            LET l == _loggers[i].value
            IN  /\ logger[l].level # 0
                /\ Sinks(l, "console") # {}
                /\ Truthy(supplied[_loggers[i].key]) => Sinks(l, "file") # {}

\* C9 (exclusive file path): no two registered loggers have open file handlers
\* on the same path.
C9_ExclusiveFilePath ==
    \A i, j \in DOMAIN _loggers :
        i # j =>
            ~ \E h1 \in Sinks(_loggers[i].value, "file"), h2 \in Sinks(_loggers[j].value, "file") :
                /\ ~handlers[h1].closed /\ ~handlers[h2].closed
                /\ handlers[h1].baseFilename = handlers[h2].baseFilename

\* The level string that C10 names for a call: the level argument when it is
\* given (not None, not empty), else the level option of the file's logger
\* section when a file is given and has one, else INFO.
NamedLevel(a) ==
    LET ini == ParserRead(a.config_file)
    IN  IF Truthy(a.level) THEN a.level
        ELSE IF Truthy(a.config_file) /\ ini.has_section /\ "level" \in DOMAIN ini.options
        THEN ini.options["level"]
        ELSE "INFO"

C12_LevelOrdering ==
    \A t \in Threads :
        (pc[t] = "done" /\ args[t].op = "log" /\ HasKey(_loggers, args[t].name)) =>
            LET l == Lookup(_loggers, args[t].name)
                L == logger[l].level
                R == ret[t].levelno
            IN  /\ ret[t].kind = "emitted" /\ ret[t].val = l
                /\ L \in Severities /\ R \in Severities
                /\ ret[t].sinks \subseteq Attached(l)
                /\ \A h \in Attached(l) :
                      /\ handlers[h].level = L
                      /\ h \in ret[t].sinks <=> R >= L

\* C12's case: a WARNING record on an entry at WARNING with a console and a
\* file handler has reached both, on the boundary R = L.
C12_Witness ==
    \E t \in Threads :
        /\ pc[t] = "done" /\ args[t].op = "log" /\ HasKey(_loggers, args[t].name)
        /\ logger[args[t].name].level = WARNING
        /\ ret[t].levelno = WARNING
        /\ Cardinality(ret[t].sinks) = 2
        /\ Sinks(args[t].name, "file") # {}

\* A setup call with the name as its only argument.
DefaultCall(t) ==
    /\ IsSetup(t)
    /\ args[t].log_file_path = None /\ args[t].config_file = None /\ args[t].level = None

\* C13 (default completeness): a setup call with the name as its only
\* argument, for a name that is not registered when the call starts, raises
\* nothing on its way; when it has ended it has returned the logger it created,
\* the logger is registered under the name, has the level INFO, does not
\* propagate, and its only handler is a console handler made by this call, at
\* INFO, with the default message format and the default time format.
C13_DefaultCompleteness ==
    \A t \in Threads :
        (DefaultCall(t) /\ ~WasRegistered(t)) =>
            /\ pc[t] \in Creating \cup {"initialized", "done"}
            /\ ret[t].kind # "raise"
            /\ pc[t] = "done" =>
                  LET l == getLogger(args[t].name)
                      hs == logger[l].handlers
                  IN  /\ ret[t] = Returned(l, "created")
                      /\ HasKey(_loggers, args[t].name)
                      /\ Lookup(_loggers, args[t].name) = l
                      /\ logger[l].level = INFO
                      /\ ~logger[l].propagate
                      /\ Len(hs) = 1
                      /\ hs[1] > Len(pre[t].handlers)
                      /\ handlers[hs[1]].kind = "console"
                      /\ handlers[hs[1]].level = INFO
                      /\ handlers[hs[1]].formatter =
                            [fmt |-> "%(asctime)s [%(levelname)s] %(name)s: %(message)s",
                             datefmt |-> "%Y-%m-%d %H:%M:%S"]
                      /\ ~handlers[hs[1]].closed

\* C13's case: the call was made while the other name is registered with a
\* file handler and the logger of its own name still had the handler and the
\* level that a failed setup left on it.
C13_Witness ==
    \E t \in Threads :
        /\ pc[t] = "done" /\ DefaultCall(t) /\ ~WasRegistered(t)
        /\ ret[t].via = "created"
        /\ pre[t]._loggers # <<>>
        /\ pre[t].logger[args[t].name].handlers # <<>>
        /\ pre[t].logger[args[t].name].level = DEBUG
        /\ \E m \in Keys(pre[t]._loggers) : Sinks(m, "file") # {}

\* No shutdown is on its way through the registry, and no handler of a
\* registered logger has been closed (by a shutdown that close() made raise).
NoShutdownRunning == \A t \in Threads : args[t].op = "shutdown" => pc[t] = "done"
NoSinkClosed ==
    \A i \in DOMAIN _loggers : \A h \in Attached(_loggers[i].value) : ~handlers[h].closed

C15_GetNeverConstructs ==
    \A t \in Threads :
        (pc[t] = "done" /\ args[t].op = "get_logger") =>
            /\ ret[t] = IF HasKey(pre[t]._loggers, args[t].name)
                        THEN Returned(Lookup(pre[t]._loggers, args[t].name), "got")
                        ELSE ReturnedNone
            /\ _loggers = pre[t]._loggers
            /\ _initialized = pre[t]._initialized
            /\ logger = pre[t].logger
            /\ handlers = pre[t].handlers
            /\ ret[t].kind = "None" => ~HasKey(_loggers, args[t].name)

\* C15's case: get_logger has returned None for a name whose logger a caller
\* still holds from before a shutdown, while the other name is registered.
C15_Witness ==
    \E t \in Threads :
        /\ pc[t] = "done" /\ args[t].op = "get_logger" /\ ret[t].kind = "None"
        /\ args[t].name \in handed
        /\ _loggers # <<>>

\* C16 (shutdown on an empty registry): a shutdown call that starts with
\* nothing registered closes nothing and raises nothing: all the way through
\* it the registry is empty and the flag, every logger and every handler are as
\* they were when it started, and it ends by returning None with the flag
\* false. A shutdown that follows a shutdown is such a call.
C16_ShutdownEmptyNoOp ==
    \A t \in Threads :
        (args[t].op = "shutdown" /\ pre[t]._loggers = <<>>) =>
            /\ pc[t] \in {"sd_next", "sd_clear", "sd_flag", "done"}
            /\ _loggers = <<>>
            /\ _initialized = pre[t]._initialized
            /\ logger = pre[t].logger
            /\ handlers = pre[t].handlers
            /\ pc[t] = "done" => (ret[t] = ReturnedNone /\ ~_initialized)

\* C16's case: a shutdown has returned that started on an empty registry after
\* an earlier shutdown had closed a file handler, while a logger that is not
\* registered still has the handler of a failed setup.
C16_Witness ==
    \E t \in Threads :
        /\ pc[t] = "done" /\ args[t].op = "shutdown" /\ pre[t]._loggers = <<>>
        /\ handed # {}
        /\ \E h \in DOMAIN handlers : handlers[h].kind = "file" /\ handlers[h].closed
        /\ \E n \in Names : logger[n].handlers # <<>>

SetupStepOf(t, n) ==
    /\ pc'[t] # pc[t]
    /\ IF pc[t] = "idle"
       THEN args'[t].op = "setup_logger" /\ args'[t].name = n
       ELSE args[t].op = "setup_logger" /\ args[t].name = n

\* What get_logger(m) and an emission on m's logger depend on: the logger
\* registered under m, its level and handler list, and those handlers.
Entry(m) ==
    [registered |-> IF HasKey(_loggers, m) THEN Lookup(_loggers, m) ELSE None,
     logger |-> logger[getLogger(m)],
     sinks |-> [h \in Range(logger[getLogger(m)].handlers) |-> handlers[h]]]

\* C18 (independence of names): every step of a setup_logger call for a name
\* n, from its first to its last, whether the call ends by returning or by
\* raising and whatever the other thread is doing, leaves the entry of every
\* other name m as it is: the logger registered under m, its level, its
\* handler list and each of those handlers (open ones stay open).
C18_IndependenceOfNames ==
    [][\A t \in Threads : \A n \in Names : \A m \in Names \ {n} :
          SetupStepOf(t, n) => Entry(m)' = Entry(m)]_vars

\* C18's case: while one thread is inside the setup of a name, about to store
\* it, the other thread has emitted a record on the registered logger of the
\* other name, which reached its open file handler.
C18_Witness ==
    \E t \in Threads : \E u \in Threads \ {t} :
        /\ IsSetup(t) /\ pc[t] = "register"
        /\ pc[u] = "done" /\ args[u].op = "log" /\ args[u].name # args[t].name
        /\ HasKey(_loggers, args[u].name)
        /\ \E h \in ret[u].sinks : handlers[h].kind = "file" /\ ~handlers[h].closed

\* C19 (the flag tracks the registry): between calls made one at a time, and
\* when a call has ended, _initialized is true exactly when the registry has
\* an item; and a setup that has raised has left the flag and the registry as
\* they were when it started.
C19_InitializedTracksRegistry ==
    /\ (\A t \in Threads : pc[t] \in {"idle", "done"}) =>
          (_initialized <=> _loggers # <<>>)
    /\ \A t \in Threads :
          (pc[t] = "done" /\ IsSetup(t) /\ ret[t].kind = "raise") =>
              /\ _initialized = pre[t]._initialized
              /\ _loggers = pre[t]._loggers

\* C19's case: a setup has failed on mkdir after a shutdown emptied a registry
\* that had been filled: the flag is false and the registry empty.
C19_Witness ==
    \E t \in Threads :
        /\ pc[t] = "done" /\ IsSetup(t) /\ ret[t] = Raised("OSError")
        /\ handed # {}
        /\ ~_initialized /\ _loggers = <<>>
        /\ \E h \in DOMAIN handlers : handlers[h].closed

\* The logger a caller holds for a name is the one setup returns for it.
SameLoggerReturned ==
    \A t \in Threads :
        (pc[t] = "done" /\ IsSetup(t) /\ ret[t].kind = "logger") =>
            ret[t].val = getLogger(args[t].name)

\* When shutdown has returned, the loggers it found registered have no handler
\* and a record of any severity on them reaches none.
DetachedByShutdown ==
    \A t \in Threads :
        (pc[t] = "done" /\ args[t].op = "shutdown" /\ ret[t].kind = "None") =>
            \A n \in Keys(pre[t]._loggers) :
                /\ logger[getLogger(n)].handlers = <<>>
                /\ \A R \in Severities : Delivered(getLogger(n), R) = {}

\* A logger without handlers gets one only in a step of a setup of its name.
DetachedUntilSetup ==
    \A n \in Names :
        (logger[getLogger(n)].handlers = <<>> /\ ~ \E t \in Threads : SetupStepOf(t, n)) =>
            logger'[getLogger(n)].handlers = <<>>

\* A setup that has created the entry of a name whose logger a caller already
\* holds has attached only handlers it made, all open, and a record on the
\* logger reaches all of them when its severity is at least the level of this
\* call and none of them otherwise.
DeliveredToNewEntry ==
    \A t \in Threads :
        (pc[t] = "done" /\ IsSetup(t) /\ ret[t].via = "created"
           /\ getLogger(args[t].name) \in handed) =>
            LET l == ret[t].val
                L == _get_log_level(NamedLevel(args[t]))
            IN  /\ Attached(l) # {}
                /\ \A h \in Attached(l) : h > Len(pre[t].handlers) /\ ~handlers[h].closed
                /\ \A R \in Severities :
                      Delivered(l, R) = (IF R >= L THEN Attached(l) ELSE {})

====
